---------------------------- MODULE Spec2Model ----------------------------
(***************************************************************************)
(* Model of src/plugin/utils.h of pybullet_rendering: the conversion of    *)
(* Bullet URDF records into scene::Shape values (makePose, getMeshData,    *)
(* makeShape) and into Bullet's b3VisualShapeData (makeVisualShapeData).   *)
(*                                                                         *)
(* Numbers.  A btScalar is modelled by an integer (an integer-valued       *)
(* double); float(x) is the IEEE-754 narrowing to a 24-bit significand,    *)
(* round to nearest, ties to even (ToFloat).  A plane normal, which needs  *)
(* fractions, is an integer vector over a positive denominator.  A         *)
(* rotation matrix is an integer matrix over a positive denominator, kept  *)
(* in lowest terms; a quaternion is kept up to a positive factor, in       *)
(* lowest terms, because btMatrix3x3::setRotation divides by the squared   *)
(* length and the components of a quarter turn are irrational.  A value    *)
(* computed from 0/0 is NaN, carried by the field nan.                     *)
(***************************************************************************)
EXTENDS Integers, Sequences, FiniteSets, TLC

VARIABLES
    pc,             \* "idle": no call in progress; "returned": a call has returned
    op,             \* the function of the last call
    args,           \* the arguments of the last call
    locals,         \* the local variables of the last call, at its return
    ret,            \* the value the last call returned
    graph,          \* scene::SceneGraph: its texture registry
    texturedCalls   \* history: makeShape calls made with a non-empty texture filename

vars == <<pc, op, args, locals, ret, graph, texturedCalls>>

(***************************************************************************)
(* Bounds of the model.                                                    *)
(***************************************************************************)
\* Longest vertex, uv, normal and index array given to getMeshData alone.
MaxLen == 2
\* Registry calls after which no further textured makeShape call is explored.
MaxRegisterCalls == 2
\* Capacity of b3VisualShapeData::m_meshAssetFileName; 1024 in Bullet's
\* SharedMemoryPublic.h, scaled down: the copy depends only on how the
\* filename's length compares with it.
VISUAL_SHAPE_MAX_PATH_LEN == 3

(***************************************************************************)
(* Program constants.                                                      *)
(***************************************************************************)
\* The flag bit tested at utils.h:151 (32768 in Bullet's SharedMemoryPublic.h).
URDF_USE_MATERIAL_COLORS_FROM_MTL == 32768

URDF_GEOM_SPHERE == "URDF_GEOM_SPHERE"
URDF_GEOM_BOX == "URDF_GEOM_BOX"
URDF_GEOM_CYLINDER == "URDF_GEOM_CYLINDER"
URDF_GEOM_MESH == "URDF_GEOM_MESH"
URDF_GEOM_PLANE == "URDF_GEOM_PLANE"
URDF_GEOM_CAPSULE == "URDF_GEOM_CAPSULE"
URDF_GEOM_CDF == "URDF_GEOM_CDF"
URDF_GEOM_HEIGHTFIELD == "URDF_GEOM_HEIGHTFIELD"
URDF_GEOM_UNKNOWN == "URDF_GEOM_UNKNOWN"

MEMORY_VERTICES == "MEMORY_VERTICES"
FILE_OBJ == "FILE_OBJ"

(***************************************************************************)
(* Arithmetic.                                                             *)
(***************************************************************************)
Abs(x) == IF x < 0 THEN -x ELSE x

RECURSIVE Gcd(_, _)
Gcd(a, b) == IF b = 0 THEN Abs(a) ELSE Gcd(b, a % Abs(b))

RECURSIVE GcdSeq(_, _)
GcdSeq(s, g) == IF s = <<>> THEN g ELSE GcdSeq(Tail(s), Gcd(g, Head(s)))

\* sqrt of a perfect square (every square root the modelled inputs lead to).
RECURSIVE SqrtFrom(_, _)
SqrtFrom(n, r) == IF (r + 1) * (r + 1) > n THEN r ELSE SqrtFrom(n, r + 1)

btSqrt(n) == SqrtFrom(n, 0)

\* The spacing of floats around a: the least power of two q with a < 2^24 * q.
RECURSIVE FloatSpacing(_, _)
FloatSpacing(a, q) == IF a < 16777216 * q THEN q ELSE FloatSpacing(a, 2 * q)

\* float(x): narrowing of an integer-valued double to single precision.
ToFloat(x) ==
    LET a  == Abs(x)
        q  == FloatSpacing(a, 1)
        lo == (a \div q) * q
        r  == a - lo
        up == IF 2 * r < q THEN lo
              ELSE IF 2 * r > q THEN lo + q
              ELSE IF (lo \div q) % 2 = 0 THEN lo ELSE lo + q
    IN  IF x < 0 THEN -up ELSE up

(***************************************************************************)
(* btVector3, btMatrix3x3, btQuaternion, btTransform.                      *)
(***************************************************************************)
Vec(x, y, z) == <<x, y, z>>

dot(u, v) == u[1] * v[1] + u[2] * v[2] + u[3] * v[3]

cross(u, v) == <<u[2] * v[3] - u[3] * v[2],
                 u[3] * v[1] - u[1] * v[3],
                 u[1] * v[2] - u[2] * v[1]>>

VecAdd(u, v) == <<u[1] + v[1], u[2] + v[2], u[3] + v[3]>>

VecNeg(u) == <<-u[1], -u[2], -u[3]>>

ZeroRows == <<<<0, 0, 0>>, <<0, 0, 0>>, <<0, 0, 0>>>>

\* A matrix all of whose entries are NaN.
NaNBasis == [nan |-> TRUE, den |-> 1, m |-> ZeroRows]

\* The matrix m / den, in lowest terms (den > 0).
Basis(m, den) ==
    LET g == GcdSeq(m[1] \o m[2] \o m[3], den)
    IN  [nan |-> FALSE, den |-> den \div g,
         m |-> [i \in 1..3 |-> [j \in 1..3 |-> m[i][j] \div g]]]

IdentityBasis == Basis(<<<<1, 0, 0>>, <<0, 1, 0>>, <<0, 0, 1>>>>, 1)

Transpose(b) ==
    IF b.nan THEN NaNBasis
    ELSE Basis([i \in 1..3 |-> [j \in 1..3 |-> b.m[j][i]]], b.den)

\* btMatrix3x3 * btMatrix3x3: a NaN entry in either makes every entry NaN.
MatMul(a, b) ==
    IF a.nan \/ b.nan THEN NaNBasis
    ELSE Basis([i \in 1..3 |-> [j \in 1..3 |->
                    a.m[i][1] * b.m[1][j] + a.m[i][2] * b.m[2][j]
                        + a.m[i][3] * b.m[3][j]]],
               a.den * b.den)

\* den * (basis * v), for a basis without NaN: the numerators of the image.
MatVecNum(b, v) == <<dot(b.m[1], v), dot(b.m[2], v), dot(b.m[3], v)>>

\* basis * v for an integer basis (the frames given as arguments).
MatVec(b, v) ==
    LET n == MatVecNum(b, v)
    IN  <<n[1] \div b.den, n[2] \div b.den, n[3] \div b.den>>

Transform(basis, origin) == [basis |-> basis, origin |-> origin]

\* btTransform::inverse: the transposed basis, and minus the origin through it.
Inverse(t) ==
    LET inv == Transpose(t.basis)
    IN  Transform(inv, MatVec(inv, VecNeg(t.origin)))

\* btTransform::operator*: basis = b1 * b2, origin = b1 * o2 + o1.  The right
\* operands the code uses have a zero origin wherever b1 is not an integer
\* matrix or b2 is NaN, and then the origin is o1.
Mul(t1, t2) ==
    Transform(MatMul(t1.basis, t2.basis),
              IF t2.origin = <<0, 0, 0>> THEN t1.origin
              ELSE VecAdd(MatVec(t1.basis, t2.origin), t1.origin))

NaNQuat == [nan |-> TRUE, x |-> 0, y |-> 0, z |-> 0, w |-> 0]

\* The quaternion with direction (x, y, z, w), in lowest terms.
Quat(x, y, z, w) ==
    LET g == GcdSeq(<<x, y, z, w>>, 0)
    IN  [nan |-> FALSE, x |-> x \div g, y |-> y \div g, z |-> z \div g,
         w |-> w \div g]

\* btQuaternion(axis, angle) with angle = btAsin(axis.length()), for an axis
\* vector axisNum / den of length at most 1.  setRotation computes
\* d = axis.length(), s = sin(angle / 2) / d and (x, y, z, w) =
\* (axis * s, cos(angle / 2)).  With d = 0 this is 0 / 0: NaN components.
\* Otherwise sin(angle) = d, and the quaternion times 2 * cos(angle / 2) * den
\* is (axisNum, den + den * cos(angle)), where
\* den * cos(angle) = sqrt(den^2 - |axisNum|^2).
QuatFromAxisAsin(axisNum, den) ==
    LET len2 == dot(axisNum, axisNum)
    IN  IF len2 = 0 THEN NaNQuat
        ELSE Quat(axisNum[1], axisNum[2], axisNum[3],
                  den + btSqrt(den * den - len2))

\* btMatrix3x3::setRotation(q): d = q.length2(), s = 2 / d, and the usual
\* entries 1 - (yy + zz), xy - wz, ...; here times d, over the denominator d.
BasisFromQuat(q) ==
    IF q.nan THEN NaNBasis
    ELSE LET d  == q.x * q.x + q.y * q.y + q.z * q.z + q.w * q.w
             xx == 2 * q.x * q.x
             yy == 2 * q.y * q.y
             zz == 2 * q.z * q.z
             xy == 2 * q.x * q.y
             xz == 2 * q.x * q.z
             yz == 2 * q.y * q.z
             wx == 2 * q.w * q.x
             wy == 2 * q.w * q.y
             wz == 2 * q.w * q.z
         IN  Basis(<<<<d - (yy + zz), xy - wz, xz + wy>>,
                     <<xy + wz, d - (xx + zz), yz - wx>>,
                     <<xz - wy, yz + wx, d - (xx + yy)>>>>, d)

\* btTransform(const btQuaternion&): that rotation, origin zero.
TransformFromQuat(q) == Transform(BasisFromQuat(q), <<0, 0, 0>>)

\* btMatrix3x3::getRotation, up to the positive factor 2 * s of its branch.
\* On a NaN matrix every comparison is false and the result is NaN.
getRotation(b) ==
    IF b.nan THEN NaNQuat
    ELSE LET m     == b.m
             trace == m[1][1] + m[2][2] + m[3][3]
             i     == IF m[1][1] < m[2][2]
                      THEN (IF m[2][2] < m[3][3] THEN 3 ELSE 2)
                      ELSE (IF m[1][1] < m[3][3] THEN 3 ELSE 1)
             j     == (i % 3) + 1
             k     == (j % 3) + 1
             t     == [n \in 1..4 |->
                         IF n = i THEN m[i][i] - m[j][j] - m[k][k] + b.den
                         ELSE IF n = 4 THEN m[k][j] - m[j][k]
                         ELSE IF n = j THEN m[j][i] + m[i][j]
                         ELSE m[k][i] + m[i][k]]
         IN  IF trace > 0
             THEN Quat(m[3][2] - m[2][3], m[1][3] - m[3][1],
                       m[2][1] - m[1][2], trace + b.den)
             ELSE Quat(t[1], t[2], t[3], t[4])

(***************************************************************************)
(* makePose (utils.h:25-38).  pose.quat is <<w, x, y, z>>, up to a         *)
(* positive factor, or NaN.                                                *)
(***************************************************************************)
VecToFloat(v) == <<ToFloat(v[1]), ToFloat(v[2]), ToFloat(v[3])>>

makePose(frame, scale) ==
    LET origin == frame.origin
        quat   == getRotation(frame.basis)
    IN  [origin |-> VecToFloat(origin),
         quat   |-> [nan |-> quat.nan,
                     v   |-> <<quat.w, quat.x, quat.y, quat.z>>],
         scale  |-> VecToFloat(scale)]

(***************************************************************************)
(* getMeshData (utils.h:46-85).                                            *)
(***************************************************************************)
RECURSIVE PushXYZ(_, _, _, _)
PushXYZ(src, i, count, out) ==
    IF i < count
    THEN PushXYZ(src, i + 1, count,
                 out \o <<ToFloat(src[i + 1][1]), ToFloat(src[i + 1][2]),
                          ToFloat(src[i + 1][3])>>)
    ELSE out

\* Mutant of PushXY: a uv pushed with all three components of its btVector3.
PushXYWithZ(src, i, count, out) == PushXYZ(src, i, count, out)

RECURSIVE PushXY(_, _, _, _)
PushXY(src, i, count, out) ==
    IF i < count
    THEN PushXY(src, i + 1, count,
                out \o <<ToFloat(src[i + 1][1]), ToFloat(src[i + 1][2])>>)
    ELSE out

RECURSIVE PushIndex(_, _, _, _)
PushIndex(src, i, count, out) ==
    IF i < count
    THEN PushIndex(src, i + 1, count, Append(out, src[i + 1]))
    ELSE out

getMeshData(geometry) ==
    LET verticesCount == Len(geometry.m_vertices)
        uvsCount      == Len(geometry.m_uvs)
        normalsCount  == Len(geometry.m_normals)
        indicesCount  == Len(geometry.m_indices)
    IN  [vertices |-> PushXYZ(geometry.m_vertices, 0, verticesCount, <<>>),
         uvs      |-> PushXY(geometry.m_uvs, 0, uvsCount, <<>>),
         normals  |-> PushXYZ(geometry.m_normals, 0, normalsCount, <<>>),
         indices  |-> PushIndex(geometry.m_indices, 0, indicesCount, <<>>)]

(***************************************************************************)
(* scene::SceneGraph::registerTexture, scene::Material, scene::Mesh and    *)
(* scene::Shape: declared in scene/SceneGraph.h, which utils.h includes.   *)
(***************************************************************************)
IsRegistered(g, fname) == \E i \in 1..Len(g.textures) : g.textures[i] = fname

\* Registering a filename returns its stable id: the id it already has, or
\* the next free one.  calls counts the calls made to the registry.
registerTexture(g, fname) ==
    IF IsRegistered(g, fname)
    THEN [id    |-> (CHOOSE i \in 1..Len(g.textures) : g.textures[i] = fname) - 1,
          graph |-> [g EXCEPT !.calls = @ + 1]]
    ELSE [id    |-> Len(g.textures),
          graph |-> [textures |-> Append(g.textures, fname),
                     calls    |-> g.calls + 1]]

NullMaterial == [null |-> TRUE]

NullMesh == [null |-> TRUE]

\* std::make_shared<Mesh>(std::shared_ptr<MeshData>)
MeshFromData(data) == [null |-> FALSE, source |-> "data", data |-> data]

\* std::make_shared<Mesh>(const std::string& filename)
MeshFromFile(filename) == [null |-> FALSE, source |-> "file", filename |-> filename]

Shape(type, pose, material, mesh) ==
    [type |-> type, pose |-> pose, material |-> material, mesh |-> mesh]

\* Shape{}: no variant, no material, no mesh.
DefaultShape ==
    Shape("Unknown",
          [origin |-> <<0, 0, 0>>, quat |-> [nan |-> FALSE, v |-> <<1, 0, 0, 0>>],
           scale |-> <<1, 1, 1>>],
          NullMaterial, NullMesh)

(***************************************************************************)
(* makeShape (utils.h:96-162).                                             *)
(***************************************************************************)
\* Mutant of textureIdOf: the registry is called for an empty filename too.
textureIdAlways(urdfMaterial, g) ==
    registerTexture(g, urdfMaterial.m_textureFilename)

\* utils.h:103-104: the registry is called only for a non-empty filename.
textureIdOf(urdfMaterial, g) ==
    LET fname == urdfMaterial.m_textureFilename
    IN  IF fname = <<>>
        THEN [id |-> -1, graph |-> g]
        ELSE registerTexture(g, fname)

\* utils.h:106-111
makeMaterial(urdfMaterial, textureId) ==
    LET d == urdfMaterial.m_matColor.m_rgbaColor
        s == urdfMaterial.m_matColor.m_specularColor
    IN  [null      |-> FALSE,
         diffuse   |-> <<ToFloat(d[1]), ToFloat(d[2]), ToFloat(d[3]), ToFloat(d[4])>>,
         specular  |-> <<ToFloat(s[1]), ToFloat(s[2]), ToFloat(s[3])>>,
         textureId |-> textureId]

\* utils.h:114-117
makeBox(frame, geometry, material) ==
    Shape("Cube", makePose(frame, geometry.m_boxSize), material, NullMesh)

\* utils.h:118-122
makeSphere(frame, geometry, material) ==
    LET r == geometry.m_sphereRadius
    IN  Shape("Sphere", makePose(frame, <<r, r, r>>), material, NullMesh)

\* utils.h:123-128
makeCylinder(frame, geometry, material) ==
    LET r == geometry.m_capsuleRadius
        h == geometry.m_capsuleHeight
    IN  Shape("Cylinder", makePose(frame, <<r, r, h>>), material, NullMesh)

\* utils.h:129-134
makeCapsule(frame, geometry, material) ==
    LET r == geometry.m_capsuleRadius
        h == geometry.m_capsuleHeight
    IN  Shape("Capsule", makePose(frame, <<r, r, h>>), material, NullMesh)

\* utils.h:138: n.dot(z) < 0.99, for the normal n.v / n.den.
NotAligned(n) == 100 * dot(n.v, <<0, 0, 1>>) < 99 * n.den

\* utils.h:139: n.cross(z), as numerators over n.den.
planeAxis(n) == cross(n.v, <<0, 0, 1>>)

\* utils.h:140: btQuaternion(axis, btAsin(axis.length()))
planeQuat(n) == QuatFromAxisAsin(planeAxis(n), n.den)

\* utils.h:136-142: the frame of a plane and the locals that lead to it.
planeFrame(frame, geometry) ==
    LET n == geometry.m_planeNormal
    IN  IF NotAligned(n)
        THEN [rotated |-> TRUE, axis |-> planeAxis(n), quat |-> planeQuat(n),
              frame |-> Mul(frame, TransformFromQuat(planeQuat(n)))]
        ELSE [rotated |-> FALSE, axis |-> <<0, 0, 0>>, quat |-> NaNQuat,
              frame |-> frame]

\* utils.h:135-145
makePlane(frame, geometry, material) ==
    Shape("Plane", makePose(planeFrame(frame, geometry).frame, <<1, 1, 1>>),
          material, NullMesh)

\* Mutant of UseMaterialColorsFromMtl: any flag discards the material.
AnyFlagSet(flags) == flags # 0

\* utils.h:151: flags & URDF_USE_MATERIAL_COLORS_FROM_MTL
UseMaterialColorsFromMtl(flags) ==
    (flags \div URDF_USE_MATERIAL_COLORS_FROM_MTL) % 2 = 1

\* Mutant of meshOf: the two sourcing paths exchanged.
meshOfExchanged(geometry) ==
    IF geometry.m_meshFileType = MEMORY_VERTICES
    THEN MeshFromFile(geometry.m_meshFileName)
    ELSE MeshFromData(getMeshData(geometry))

\* utils.h:148-150
meshOf(geometry) ==
    IF geometry.m_meshFileType = MEMORY_VERTICES
    THEN MeshFromData(getMeshData(geometry))
    ELSE MeshFromFile(geometry.m_meshFileName)

\* utils.h:146-154
makeMesh(frame, geometry, material, flags) ==
    Shape("Mesh", makePose(frame, geometry.m_meshScale),
          IF UseMaterialColorsFromMtl(flags) THEN NullMaterial ELSE material,
          meshOf(geometry))

\* Mutant of makeHeightfield: the pose scaled by the mesh scale.
makeHeightfieldScaled(frame, geometry, material) ==
    Shape("Heightfield", makePose(frame, geometry.m_meshScale), material,
          MeshFromData(getMeshData(geometry)))

\* utils.h:155-159
makeHeightfield(frame, geometry, material) ==
    Shape("Heightfield", makePose(frame, <<1, 1, 1>>), material,
          MeshFromData(getMeshData(geometry)))

\* Mutant of dispatchShape: a cylinder built by the capsule branch, and an
\* unrecognised tag by the box branch.
dispatchShapeConfused(frame, geometry, material, flags) ==
    IF URDF_GEOM_SPHERE = geometry.m_type THEN makeSphere(frame, geometry, material)
    ELSE IF URDF_GEOM_CYLINDER = geometry.m_type \/ URDF_GEOM_CAPSULE = geometry.m_type
         THEN makeCapsule(frame, geometry, material)
    ELSE IF URDF_GEOM_PLANE = geometry.m_type
         THEN makePlane(frame, geometry, material)
    ELSE IF URDF_GEOM_MESH = geometry.m_type
         THEN makeMesh(frame, geometry, material, flags)
    ELSE IF URDF_GEOM_HEIGHTFIELD = geometry.m_type
         THEN makeHeightfield(frame, geometry, material)
    ELSE makeBox(frame, geometry, material)

\* utils.h:113-161: the dispatch on geometry.m_type.
dispatchShape(frame, geometry, material, flags) ==
    IF URDF_GEOM_BOX = geometry.m_type THEN makeBox(frame, geometry, material)
    ELSE IF URDF_GEOM_SPHERE = geometry.m_type
         THEN makeSphere(frame, geometry, material)
    ELSE IF URDF_GEOM_CYLINDER = geometry.m_type
         THEN makeCylinder(frame, geometry, material)
    ELSE IF URDF_GEOM_CAPSULE = geometry.m_type
         THEN makeCapsule(frame, geometry, material)
    ELSE IF URDF_GEOM_PLANE = geometry.m_type
         THEN makePlane(frame, geometry, material)
    ELSE IF URDF_GEOM_MESH = geometry.m_type
         THEN makeMesh(frame, geometry, material, flags)
    ELSE IF URDF_GEOM_HEIGHTFIELD = geometry.m_type
         THEN makeHeightfield(frame, geometry, material)
    ELSE DefaultShape

\* The whole call: the Shape returned, the scene graph after it, and the
\* locals frame (utils.h:101), textureId (104), material (109) and, for a
\* plane, axis and quat (139-140).
makeShape(urdfShape, urdfMaterial, localInertiaFrame, flags, g) ==
    LET frame    == Mul(Inverse(localInertiaFrame), urdfShape.m_linkLocalFrame)
        tex      == textureIdOf(urdfMaterial, g)
        material == makeMaterial(urdfMaterial, tex.id)
        geometry == urdfShape.m_geometry
        plane    == IF URDF_GEOM_PLANE = geometry.m_type
                    THEN planeFrame(frame, geometry)
                    ELSE [rotated |-> FALSE, axis |-> <<0, 0, 0>>,
                          quat |-> NaNQuat, frame |-> frame]
    IN  [shape  |-> dispatchShape(frame, geometry, material, flags),
         graph  |-> tex.graph,
         locals |-> [frame |-> frame, textureId |-> tex.id,
                     material |-> material, callsBefore |-> g.calls,
                     rotated |-> plane.rotated, axis |-> plane.axis,
                     quat |-> plane.quat, planeFrame |-> plane.frame]]

(***************************************************************************)
(* makeVisualShapeData (utils.h:174-213).                                  *)
(***************************************************************************)
\* std::strncpy(dest, src, n) on the memory mem, dest being its first byte:
\* exactly n bytes are written, the characters of src and then NULs.
strncpy(mem, src, n) ==
    [i \in 1..Len(mem) |->
        IF i <= n THEN (IF i <= Len(src) THEN src[i] ELSE 0) ELSE mem[i]]

\* btTransform::getRotation(): the unit quaternion of the basis, for a basis
\* whose quaternion has rational components (identity, half turns).
UnitRotation(b) ==
    LET q == getRotation(b)
        n == btSqrt(q.x * q.x + q.y * q.y + q.z * q.z + q.w * q.w)
    IN  [x |-> q.x \div n, y |-> q.y \div n, z |-> q.z \div n, w |-> q.w \div n]

\* Mutant of visualDimensions: the three mesh-scale components.
visualDimensionsPerAxis(scale) == <<scale[1], scale[2], scale[3]>>

\* utils.h:196-198: every slot is m_meshScale[0].
visualDimensions(scale) == <<scale[1], scale[1], scale[1]>>

\* uninit: the indeterminate content of the bytes of `b3VisualShapeData shape;`
\* from m_meshAssetFileName on, before anything is assigned.  trailing: the
\* bytes that follow the field.
makeVisualShapeData(urdfShape, urdfMaterial, localInertiaFrame, bodyUniqueId, linkIndex, uninit) ==
    LET origin == localInertiaFrame.origin
        rotate == UnitRotation(localInertiaFrame.basis)
        scale  == urdfShape.m_geometry.m_meshScale
        rgba   == urdfMaterial.m_matColor.m_rgbaColor
        mem    == strncpy(uninit, urdfMaterial.m_textureFilename,
                          VISUAL_SHAPE_MAX_PATH_LEN)
    IN  [m_objectUniqueId        |-> bodyUniqueId,
         m_linkIndex             |-> linkIndex,
         m_localVisualFrame      |-> <<origin[1], origin[2], origin[3],
                                       rotate.x, rotate.y, rotate.z, rotate.w>>,
         m_visualGeometryType    |-> urdfShape.m_geometry.m_type,
         m_dimensions            |-> visualDimensions(scale),
         m_rgbaColor             |-> <<rgba[1], rgba[2], rgba[3], rgba[4]>>,
         m_meshAssetFileName     |-> SubSeq(mem, 1, VISUAL_SHAPE_MAX_PATH_LEN),
         trailing                |-> SubSeq(mem, VISUAL_SHAPE_MAX_PATH_LEN + 1,
                                            Len(mem)),
         m_textureUniqueId       |-> -1,
         m_openglTextureId       |-> -1,
         m_tinyRendererTextureId |-> -1]

(***************************************************************************)
(* The inputs the calls are explored on.                                   *)
(***************************************************************************)
RECURSIVE SeqsUpTo(_, _)
SeqsUpTo(S, n) ==
    IF n = 0 THEN {<<>>}
    ELSE LET shorter == SeqsUpTo(S, n - 1)
         IN  shorter \cup {Append(q, e) : q \in {t \in shorter : Len(t) = n - 1}, e \in S}

GeomTypes ==
    {URDF_GEOM_SPHERE, URDF_GEOM_BOX, URDF_GEOM_CYLINDER, URDF_GEOM_MESH,
     URDF_GEOM_PLANE, URDF_GEOM_CAPSULE, URDF_GEOM_CDF, URDF_GEOM_HEIGHTFIELD,
     URDF_GEOM_UNKNOWN}

\* Sizes of a geometry; 16777217 = 2^24 + 1 is a double that is no float.
GeomSizes ==
    {[m_boxSize |-> <<2, 4, 6>>, m_sphereRadius |-> 5, m_capsuleRadius |-> 7,
      m_capsuleHeight |-> 9, m_meshScale |-> <<3, 8, 11>>],
     [m_boxSize |-> <<16777217, 1, 2>>, m_sphereRadius |-> 3,
      m_capsuleRadius |-> 1, m_capsuleHeight |-> 4, m_meshScale |-> <<2, 1, 5>>]}

\* Unit plane normals: up, sideways, down, tilted by asin(3/5), and tilted so
\* little that the dot product with up, 420/421, is above 0.99.
PlaneNormals ==
    {[v |-> <<0, 0, 1>>, den |-> 1], [v |-> <<1, 0, 0>>, den |-> 1],
     [v |-> <<0, 0, -1>>, den |-> 1], [v |-> <<3, 0, 4>>, den |-> 5],
     [v |-> <<29, 0, 420>>, den |-> 421]}

MeshFileTypes == {MEMORY_VERTICES, FILE_OBJ}

\* The mesh arrays of a geometry given to makeShape: none, or arrays whose
\* lengths disagree.
MeshArrays ==
    {[m_vertices |-> <<>>, m_uvs |-> <<>>, m_normals |-> <<>>, m_indices |-> <<>>],
     [m_vertices |-> <<<<1, 2, 3>>, <<16777217, -5, 0>>>>,
      m_uvs |-> <<<<0, 1, 9>>>>, m_normals |-> <<>>, m_indices |-> <<0, 1, 1>>]}

UrdfGeometry(type, sizes, normal, fileType, arrays) ==
    [m_type |-> type, m_boxSize |-> sizes.m_boxSize,
     m_sphereRadius |-> sizes.m_sphereRadius,
     m_capsuleRadius |-> sizes.m_capsuleRadius,
     m_capsuleHeight |-> sizes.m_capsuleHeight,
     m_planeNormal |-> normal, m_meshScale |-> sizes.m_meshScale,
     m_meshFileType |-> fileType, m_meshFileName |-> <<109, 46, 111>>,
     m_vertices |-> arrays.m_vertices, m_uvs |-> arrays.m_uvs,
     m_normals |-> arrays.m_normals, m_indices |-> arrays.m_indices]

MatColors ==
    {[m_rgbaColor |-> <<1, 0, 0, 1>>, m_specularColor |-> <<0, 1, 1>>],
     [m_rgbaColor |-> <<0, 1, 1, 0>>, m_specularColor |-> <<1, 1, 0>>]}

\* Texture filenames, as character codes: none, "a", "bc".
TextureNames == {<<>>, <<97>>, <<98, 99>>}

\* No flag; another flag alone; the MTL flag together with another.
FlagValues == {0, 2, URDF_USE_MATERIAL_COLORS_FROM_MTL + 2}

IdentityFrame == Transform(IdentityBasis, <<0, 0, 0>>)

\* A quarter turn about z, moved by (1, 2, 3).
QuarterTurnZ ==
    Transform(Basis(<<<<0, -1, 0>>, <<1, 0, 0>>, <<0, 0, 1>>>>, 1), <<1, 2, 3>>)

\* A half turn about x, moved by (0, -4, 5).
HalfTurnX ==
    Transform(Basis(<<<<1, 0, 0>>, <<0, -1, 0>>, <<0, 0, -1>>>>, 1), <<0, -4, 5>>)

\* <<localInertiaFrame, m_linkLocalFrame>>
FramePairs == {<<IdentityFrame, IdentityFrame>>, <<QuarterTurnZ, HalfTurnX>>}

\* Arrays given to getMeshData alone: every combination of lengths up to MaxLen.
Vec3Samples == {<<1, 2, 3>>, <<16777217, -5, 0>>}

IndexSamples == {0, 7}

\* Texture filenames given to makeVisualShapeData: "abcd..." cut to every
\* length from 0 to two beyond the capacity of the field.
LongName == [i \in 1..(VISUAL_SHAPE_MAX_PATH_LEN + 2) |-> 96 + i]

VisualNames == {SubSeq(LongName, 1, n) : n \in 0..(VISUAL_SHAPE_MAX_PATH_LEN + 2)}

\* Frames whose quaternion has rational components.
VisualFrames == {IdentityFrame, HalfTurnX}

\* What the bytes of the uninitialised struct may hold: the field and the
\* two bytes after it, all NUL or all 255.
UninitMemory ==
    {[i \in 1..(VISUAL_SHAPE_MAX_PATH_LEN + 2) |-> b] : b \in {0, 255}}

(***************************************************************************)
(* The state machine: a caller that calls the functions one at a time.     *)
(***************************************************************************)
None == <<>>

Init ==
    /\ pc = "idle"
    /\ op = "none"
    /\ args = None
    /\ locals = None
    /\ ret = None
    /\ graph = [textures |-> <<>>, calls |-> 0]
    /\ texturedCalls = 0

\* A call of makeShape on the caller's scene graph.
MakeShape ==
    /\ pc = "idle"
    /\ \E type \in GeomTypes, sizes \in GeomSizes, normal \in PlaneNormals,
          fileType \in MeshFileTypes, arrays \in MeshArrays,
          color \in MatColors, fname \in TextureNames, flags \in FlagValues,
          frames \in FramePairs :
          LET urdfShape    == [m_geometry |-> UrdfGeometry(type, sizes, normal,
                                                            fileType, arrays),
                               m_linkLocalFrame |-> frames[2]]
              urdfMaterial == [m_matColor |-> color, m_textureFilename |-> fname]
          IN  /\ fname # <<>> => graph.calls < MaxRegisterCalls
              /\ \E r \in {makeShape(urdfShape, urdfMaterial, frames[1], flags,
                                      graph)} :
                    /\ ret' = r.shape
                    /\ locals' = r.locals
                    /\ graph' = r.graph
              /\ args' = [urdfShape |-> urdfShape, urdfMaterial |-> urdfMaterial,
                          localInertiaFrame |-> frames[1], flags |-> flags]
              /\ texturedCalls' = texturedCalls + (IF fname # <<>> THEN 1 ELSE 0)
    /\ op' = "makeShape"
    /\ pc' = "returned"

\* A call of getMeshData.
GetMeshData ==
    /\ pc = "idle"
    /\ \E vertices \in SeqsUpTo(Vec3Samples, MaxLen),
          uvs \in SeqsUpTo(Vec3Samples, MaxLen),
          normals \in SeqsUpTo(Vec3Samples, MaxLen),
          indices \in SeqsUpTo(IndexSamples, MaxLen) :
          LET geometry == [m_vertices |-> vertices, m_uvs |-> uvs,
                           m_normals |-> normals, m_indices |-> indices]
          IN  /\ args' = [geometry |-> geometry]
              /\ ret' = getMeshData(geometry)
    /\ locals' = None
    /\ op' = "getMeshData"
    /\ pc' = "returned"
    /\ UNCHANGED <<graph, texturedCalls>>

\* A call of makeVisualShapeData.
MakeVisualShapeData ==
    /\ pc = "idle"
    /\ \E type \in GeomTypes, sizes \in GeomSizes, color \in MatColors,
          fname \in VisualNames, frame \in VisualFrames,
          bodyUniqueId \in {0, 3}, linkIndex \in {-1, 2},
          uninit \in UninitMemory :
          LET urdfShape    == [m_geometry |-> [m_type |-> type,
                                               m_meshScale |-> sizes.m_meshScale]]
              urdfMaterial == [m_matColor |-> color, m_textureFilename |-> fname]
          IN  /\ args' = [urdfShape |-> urdfShape, urdfMaterial |-> urdfMaterial,
                          localInertiaFrame |-> frame,
                          bodyUniqueId |-> bodyUniqueId, linkIndex |-> linkIndex]
              /\ locals' = [uninit |-> uninit]
              /\ ret' = makeVisualShapeData(urdfShape, urdfMaterial, frame,
                                            bodyUniqueId, linkIndex, uninit)
    /\ op' = "makeVisualShapeData"
    /\ pc' = "returned"
    /\ UNCHANGED <<graph, texturedCalls>>

\* The caller takes the returned value; the call's locals are gone.
Return ==
    /\ pc = "returned"
    /\ pc' = "idle"
    /\ op' = "none"
    /\ args' = None
    /\ locals' = None
    /\ ret' = None
    /\ UNCHANGED <<graph, texturedCalls>>

NextShape == MakeShape \/ Return

NextMesh == GetMeshData \/ Return

NextVisual == MakeVisualShapeData \/ Return

SpecShape == Init /\ [][NextShape]_vars

SpecMesh == Init /\ [][NextMesh]_vars

SpecVisual == Init /\ [][NextVisual]_vars

(***************************************************************************)
(* The claims.                                                             *)
(***************************************************************************)
Returned(f) == pc = "returned" /\ op = f

SupportedTypes ==
    {URDF_GEOM_BOX, URDF_GEOM_SPHERE, URDF_GEOM_CYLINDER, URDF_GEOM_CAPSULE,
     URDF_GEOM_PLANE, URDF_GEOM_MESH, URDF_GEOM_HEIGHTFIELD}

\* C1: makeShape maps the geometry tag to the Shape variant one-to-one (BOX
\* to Cube, SPHERE to Sphere, CYLINDER to Cylinder, CAPSULE to Capsule, PLANE
\* to Plane, MESH to Mesh, HEIGHTFIELD to Heightfield), and every other tag
\* gives the default Shape, whatever the material, the flags and the frames.
C1_VariantMatchesTag ==
    Returned("makeShape") =>
        LET type == args.urdfShape.m_geometry.m_type
        IN  /\ type = URDF_GEOM_BOX => ret.type = "Cube"
            /\ type = URDF_GEOM_SPHERE => ret.type = "Sphere"
            /\ type = URDF_GEOM_CYLINDER => ret.type = "Cylinder"
            /\ type = URDF_GEOM_CAPSULE => ret.type = "Capsule"
            /\ type = URDF_GEOM_PLANE => ret.type = "Plane"
            /\ type = URDF_GEOM_MESH => ret.type = "Mesh"
            /\ type = URDF_GEOM_HEIGHTFIELD => ret.type = "Heightfield"
            /\ type \notin SupportedTypes => ret = DefaultShape

\* An unsupported tag, with a texture, the MTL flag and frames that are not
\* the identity, has given the default Shape.
C1_Witness ==
    /\ Returned("makeShape")
    /\ args.urdfShape.m_geometry.m_type = URDF_GEOM_CDF
    /\ args.urdfMaterial.m_textureFilename # <<>>
    /\ UseMaterialColorsFromMtl(args.flags)
    /\ args.localInertiaFrame = QuarterTurnZ
    /\ ret = DefaultShape

\* The elements of a flat array: out[stride * (i - 1) + c] for element i.
Flat(out, stride, i, c) == out[stride * (i - 1) + c]

\* C2 as stated: the arrays have lengths 3N, 2M, 3K and L, and every output
\* element equals the input component it comes from.
C2_ExactRoundTrip ==
    Returned("getMeshData") =>
        LET g == args.geometry
        IN  /\ Len(ret.vertices) = 3 * Len(g.m_vertices)
            /\ Len(ret.uvs) = 2 * Len(g.m_uvs)
            /\ Len(ret.normals) = 3 * Len(g.m_normals)
            /\ Len(ret.indices) = Len(g.m_indices)
            /\ \A i \in 1..Len(g.m_vertices) : \A c \in 1..3 :
                   Flat(ret.vertices, 3, i, c) = g.m_vertices[i][c]
            /\ \A i \in 1..Len(g.m_uvs) : \A c \in 1..2 :
                   Flat(ret.uvs, 2, i, c) = g.m_uvs[i][c]
            /\ \A i \in 1..Len(g.m_normals) : \A c \in 1..3 :
                   Flat(ret.normals, 3, i, c) = g.m_normals[i][c]
            /\ \A i \in 1..Len(g.m_indices) : ret.indices[i] = g.m_indices[i]

\* C2, amended: the arrays have lengths 3N, 2M, 3K and L, in the order of the
\* input; every vertex, uv and normal element is the input component narrowed
\* to single precision, and every index equals the input index.
C2_NarrowedRoundTrip ==
    Returned("getMeshData") =>
        LET g == args.geometry
        IN  /\ Len(ret.vertices) = 3 * Len(g.m_vertices)
            /\ Len(ret.uvs) = 2 * Len(g.m_uvs)
            /\ Len(ret.normals) = 3 * Len(g.m_normals)
            /\ Len(ret.indices) = Len(g.m_indices)
            /\ \A i \in 1..Len(g.m_vertices) : \A c \in 1..3 :
                   Flat(ret.vertices, 3, i, c) = ToFloat(g.m_vertices[i][c])
            /\ \A i \in 1..Len(g.m_uvs) : \A c \in 1..2 :
                   Flat(ret.uvs, 2, i, c) = ToFloat(g.m_uvs[i][c])
            /\ \A i \in 1..Len(g.m_normals) : \A c \in 1..3 :
                   Flat(ret.normals, 3, i, c) = ToFloat(g.m_normals[i][c])
            /\ \A i \in 1..Len(g.m_indices) : ret.indices[i] = g.m_indices[i]

\* Arrays whose lengths disagree (two vertices, no uv, one normal, two
\* indices), the second vertex with an x that is no float, have been converted.
C2_Witness ==
    /\ Returned("getMeshData")
    /\ args.geometry.m_vertices = <<<<1, 2, 3>>, <<16777217, -5, 0>>>>
    /\ args.geometry.m_uvs = <<>>
    /\ Len(args.geometry.m_normals) = 1
    /\ args.geometry.m_indices = <<7, 0>>
    /\ ret.vertices = <<1, 2, 3, 16777216, -5, 0>>
    /\ ret.uvs = <<>>
    /\ ret.indices = <<7, 0>>

\* C3: makeVisualShapeData writes no byte outside m_meshAssetFileName, cuts a
\* longer filename to exactly the capacity of the field, and leaves the field
\* null-terminated, for a filename of any length.
C3_CopyBoundedAndTerminated ==
    Returned("makeVisualShapeData") =>
        LET fname == args.urdfMaterial.m_textureFilename
            field == ret.m_meshAssetFileName
        IN  /\ Len(field) = VISUAL_SHAPE_MAX_PATH_LEN
            /\ ret.trailing = SubSeq(locals.uninit, VISUAL_SHAPE_MAX_PATH_LEN + 1,
                                     Len(locals.uninit))
            /\ Len(fname) > VISUAL_SHAPE_MAX_PATH_LEN =>
                   field = SubSeq(fname, 1, VISUAL_SHAPE_MAX_PATH_LEN)
            /\ \E i \in 1..VISUAL_SHAPE_MAX_PATH_LEN : field[i] = 0

\* C4: the texture registry is called exactly once by a makeShape call with a
\* non-empty texture filename and never by one with an empty filename,
\* whatever the tag and the flags, so over any sequence of calls the registry
\* has been called once per textured call; the material is built with -1 for
\* an empty filename and with the id the registry returned otherwise.
C4_OneRegistrationPerTexture ==
    /\ graph.calls = texturedCalls
    /\ Returned("makeShape") =>
           LET fname == args.urdfMaterial.m_textureFilename
           IN  /\ fname = <<>> =>
                      /\ graph.calls = locals.callsBefore
                      /\ locals.material.textureId = -1
               /\ fname # <<>> =>
                      /\ graph.calls = locals.callsBefore + 1
                      /\ IsRegistered(graph, fname)
                      /\ locals.material.textureId = locals.textureId
                      /\ locals.textureId # -1

\* A second textured call, on an unsupported tag, has registered a second
\* filename and built its material with the second id.
C4_Witness ==
    /\ Returned("makeShape")
    /\ args.urdfShape.m_geometry.m_type = URDF_GEOM_UNKNOWN
    /\ args.urdfMaterial.m_textureFilename = <<98, 99>>
    /\ graph.textures = <<<<97>>, <<98, 99>>>>
    /\ graph.calls = 2
    /\ locals.material.textureId = 1

\* The Material of utils.h:109-111 for the arguments of the call.
BuiltMaterial ==
    LET d == args.urdfMaterial.m_matColor.m_rgbaColor
        s == args.urdfMaterial.m_matColor.m_specularColor
    IN  [null      |-> FALSE,
         diffuse   |-> <<ToFloat(d[1]), ToFloat(d[2]), ToFloat(d[3]), ToFloat(d[4])>>,
         specular  |-> <<ToFloat(s[1]), ToFloat(s[2]), ToFloat(s[3])>>,
         textureId |-> IF args.urdfMaterial.m_textureFilename = <<>> THEN -1
                       ELSE locals.textureId]

\* C5: a Mesh made with the URDF_USE_MATERIAL_COLORS_FROM_MTL bit set has a
\* null material, whatever the input material; every other supported tag, and
\* a Mesh with the bit clear, has a non-null material built from the input
\* diffuse RGBA, specular RGB and texture id.
C5_MaterialDiscardedOnlyForMtlMesh ==
    Returned("makeShape") =>
        LET type == args.urdfShape.m_geometry.m_type
            mtl  == (args.flags \div URDF_USE_MATERIAL_COLORS_FROM_MTL) % 2 = 1
        IN  /\ (type = URDF_GEOM_MESH /\ mtl) => ret.material = NullMaterial
            /\ (type \in SupportedTypes /\ ~(type = URDF_GEOM_MESH /\ mtl)) =>
                   /\ ~ret.material.null
                   /\ ret.material = BuiltMaterial

\* A textured Mesh made with the bit set, among other flags, has a null
\* material.
C5_Witness ==
    /\ Returned("makeShape")
    /\ args.urdfShape.m_geometry.m_type = URDF_GEOM_MESH
    /\ args.flags = URDF_USE_MATERIAL_COLORS_FROM_MTL + 2
    /\ args.urdfMaterial.m_textureFilename # <<>>
    /\ ret.material.null

Up == <<0, 0, 1>>

\* The frame of utils.h:101 for the arguments of the call.
InputFrame == Mul(Inverse(args.localInertiaFrame), args.urdfShape.m_linkLocalFrame)

\* C6: for the plane normal (0,0,1) no rotation is composed and the pose is
\* that of inverse(localInertiaFrame) * linkLocalFrame; for the normal (1,0,0)
\* the rotation composed onto the frame carries the up-axis (0,0,1) onto
\* (1,0,0).
C6_PlaneRotationCarriesUpOntoNormal ==
    (Returned("makeShape") /\ args.urdfShape.m_geometry.m_type = URDF_GEOM_PLANE) =>
        LET n   == args.urdfShape.m_geometry.m_planeNormal
            rot == BasisFromQuat(locals.quat)
        IN  /\ n = [v |-> <<0, 0, 1>>, den |-> 1] =>
                   /\ ~locals.rotated
                   /\ ret.pose = makePose(InputFrame, <<1, 1, 1>>)
            /\ n = [v |-> <<1, 0, 0>>, den |-> 1] =>
                   /\ locals.rotated
                   /\ ~rot.nan
                   /\ MatVecNum(rot, Up) = <<rot.den, 0, 0>>

\* C7: whenever makeShape composes the extra rotation of a plane, for a unit
\* normal, the axis normal x (0,0,1) has non-zero length.
C7_RotationAxisNeverZero ==
    (/\ Returned("makeShape")
     /\ args.urdfShape.m_geometry.m_type = URDF_GEOM_PLANE
     /\ locals.rotated) =>
        dot(locals.axis, locals.axis) # 0

\* C8: makeShape derives the pose scale with makePose from the box size for
\* a Box, from (radius, radius, radius) for a Sphere, from (capsuleRadius,
\* capsuleRadius, capsuleHeight) for a Cylinder and for a Capsule, whose
\* whole pose does not depend on which of the two tags it is, and from the
\* mesh scale for a Mesh; it is (1,1,1) for a Plane and a Heightfield
\* whatever the mesh scale.
C8_PoseScalePerVariant ==
    Returned("makeShape") =>
        LET g     == args.urdfShape.m_geometry
            type  == g.m_type
            r     == g.m_capsuleRadius
            h     == g.m_capsuleHeight
            sr    == g.m_sphereRadius
        IN  /\ type = URDF_GEOM_BOX =>
                   ret.pose.scale = makePose(InputFrame, g.m_boxSize).scale
            /\ type = URDF_GEOM_SPHERE =>
                   ret.pose.scale = makePose(InputFrame, <<sr, sr, sr>>).scale
            /\ type \in {URDF_GEOM_CYLINDER, URDF_GEOM_CAPSULE} =>
                   ret.pose = makePose(InputFrame, <<r, r, h>>)
            /\ type \in {URDF_GEOM_PLANE, URDF_GEOM_HEIGHTFIELD} =>
                   ret.pose.scale = <<1, 1, 1>>
            /\ type = URDF_GEOM_MESH =>
                   ret.pose.scale = makePose(InputFrame, g.m_meshScale).scale

\* A Heightfield whose mesh scale is (3,8,11) has the pose scale (1,1,1).
C8_Witness ==
    /\ Returned("makeShape")
    /\ args.urdfShape.m_geometry.m_type = URDF_GEOM_HEIGHTFIELD
    /\ args.urdfShape.m_geometry.m_meshScale = <<3, 8, 11>>
    /\ ret.pose.scale = <<1, 1, 1>>

\* C9: a Mesh of file type MEMORY_VERTICES holds the data getMeshData
\* produces and no filename; a Mesh of another file type holds the mesh
\* filename and no data; a Heightfield holds getMeshData's output whatever
\* its file type; the other variants and the default Shape carry no mesh.
C9_MeshSourcing ==
    Returned("makeShape") =>
        LET g    == args.urdfShape.m_geometry
            type == g.m_type
            data == [vertices |-> PushXYZ(g.m_vertices, 0, Len(g.m_vertices), <<>>),
                     uvs      |-> PushXY(g.m_uvs, 0, Len(g.m_uvs), <<>>),
                     normals  |-> PushXYZ(g.m_normals, 0, Len(g.m_normals), <<>>),
                     indices  |-> g.m_indices]
        IN  /\ (type = URDF_GEOM_MESH /\ g.m_meshFileType = MEMORY_VERTICES) =>
                   ret.mesh = [null |-> FALSE, source |-> "data", data |-> data]
            /\ (type = URDF_GEOM_MESH /\ g.m_meshFileType # MEMORY_VERTICES) =>
                   ret.mesh = [null |-> FALSE, source |-> "file",
                               filename |-> g.m_meshFileName]
            /\ type = URDF_GEOM_HEIGHTFIELD =>
                   ret.mesh = [null |-> FALSE, source |-> "data", data |-> data]
            /\ type \notin {URDF_GEOM_MESH, URDF_GEOM_HEIGHTFIELD} => ret.mesh.null

\* A Heightfield of file type FILE_OBJ, with arrays, holds the extracted data.
C9_Witness ==
    /\ Returned("makeShape")
    /\ args.urdfShape.m_geometry.m_type = URDF_GEOM_HEIGHTFIELD
    /\ args.urdfShape.m_geometry.m_meshFileType = FILE_OBJ
    /\ Len(args.urdfShape.m_geometry.m_vertices) = 2
    /\ ret.mesh.source = "data"
    /\ Len(ret.mesh.data.vertices) = 6
    /\ Len(ret.mesh.data.uvs) = 2

\* C10: makeVisualShapeData passes the object id, the link index, the tag and
\* the diffuse colour through, sets the three m_dimensions slots to the first
\* mesh-scale component, and sets the three texture ids to -1 even for a
\* non-empty texture filename.
C10_VisualShapeFields ==
    Returned("makeVisualShapeData") =>
        /\ ret.m_objectUniqueId = args.bodyUniqueId
        /\ ret.m_linkIndex = args.linkIndex
        /\ ret.m_visualGeometryType = args.urdfShape.m_geometry.m_type
        /\ \A i \in 1..3 :
               ret.m_dimensions[i] = args.urdfShape.m_geometry.m_meshScale[1]
        /\ ret.m_rgbaColor = args.urdfMaterial.m_matColor.m_rgbaColor
        /\ ret.m_textureUniqueId = -1
        /\ ret.m_openglTextureId = -1
        /\ ret.m_tinyRendererTextureId = -1

\* A textured shape whose mesh scale is (3,8,11) has the dimensions (3,3,3)
\* and the texture ids -1.
C10_Witness ==
    /\ Returned("makeVisualShapeData")
    /\ args.urdfMaterial.m_textureFilename # <<>>
    /\ args.urdfShape.m_geometry.m_meshScale = <<3, 8, 11>>
    /\ ret.m_dimensions = <<3, 3, 3>>
    /\ ret.m_textureUniqueId = -1

=============================================================================
